---- MODULE Spec2Model ----
(***************************************************************************)
(* lazy-string-replace: ReplaceWriter (streaming replacement filter),      *)
(* ReplaceDisplay (a Display view that renders its haystack through a      *)
(* ReplaceWriter) and ReplacedString (single-shot replacement driven by a  *)
(* pattern searcher), from src/src/lib.rs.                                 *)
(*                                                                         *)
(* A str is a sequence of bytes.  "L" is the lead byte and "C" the         *)
(* continuation byte of a two-byte character; every other byte is a        *)
(* one-byte character.  A chunk sink is the record [out, errs, failIn]:    *)
(* out is the sequence of chunks it has accepted, errs the number of       *)
(* writes it has refused, failIn the number of the coming write it will    *)
(* refuse (0: none).                                                       *)
(***************************************************************************)
EXTENDS Integers, Sequences, FiniteSets, TLC

VARIABLES view, pc, idx, needle_pos, buffer, sink, result, prev

vars == <<view, pc, idx, needle_pos, buffer, sink, result, prev>>

\* Bound: byte length of the haystacks (and of the needles) drawn in Init.
MaxHayLen == 3

Bytes == {"a", "b", "L", "C"}

(***************************************************************************)
(* str primitives                                                          *)
(***************************************************************************)
\* Valid UTF-8: a lead byte is followed by a continuation byte and a
\* continuation byte follows a lead byte.
IsStr(s) ==
    \A i \in 1..Len(s) :
        /\ s[i] = "L" => (i < Len(s) /\ s[i + 1] = "C")
        /\ s[i] = "C" => (i > 1 /\ s[i - 1] = "L")

\* str::is_char_boundary: offset n (0-based) is 0, the length, or the offset
\* of a byte that is not a continuation byte.
IsCharBoundary(s, n) ==
    \/ n = 0
    \/ n = Len(s)
    \/ (n > 0 /\ n < Len(s) /\ s[n + 1] # "C")

\* &s[from..to], 0-based half-open byte range.
Slice(s, from, to) == SubSeq(s, from + 1, to)

\* str::starts_with for a literal prefix.
StartsWith(s, p) == Len(p) <= Len(s) /\ SubSeq(s, 1, Len(p)) = p

RECURSIVE Flatten(_)
\* The text a sequence of chunks spells.
Flatten(chunks) ==
    IF chunks = <<>> THEN <<>> ELSE Head(chunks) \o Flatten(Tail(chunks))

(***************************************************************************)
(* The chunk sink (fmt::Write of the wrapped writer)                       *)
(***************************************************************************)
NewSink == [out |-> <<>>, errs |-> 0, failIn |-> 0]

\* writer.write_str(s): the sink accepts the chunk or refuses it.
SinkWriteStr(w, s) ==
    IF w.failIn = 1
    THEN [writer |-> [w EXCEPT !.errs = @ + 1, !.failIn = 0], ok |-> FALSE]
    ELSE [writer |-> [w EXCEPT !.out = Append(@, s),
                               !.failIn = IF @ = 0 THEN 0 ELSE @ - 1],
          ok |-> TRUE]

RECURSIVE SinkWriteAll(_, _)
\* A run of writes each followed by `?`: the first refusal ends the run.
SinkWriteAll(w, chunks) ==
    IF chunks = <<>> THEN [writer |-> w, ok |-> TRUE]
    ELSE LET r == SinkWriteStr(w, Head(chunks))
         IN IF r.ok THEN SinkWriteAll(r.writer, Tail(chunks)) ELSE r

(***************************************************************************)
(* Pattern search for a literal needle (pattern::Searcher): the steps      *)
(* partition the haystack left to right into Match and Reject spans; the   *)
(* sequence ends where the searcher answers Done.                          *)
(***************************************************************************)
\* Whether the needle occurs in h at byte offset i (0-based).
OccursAt(h, n, i) == i + Len(n) <= Len(h) /\ Slice(h, i, i + Len(n)) = n

\* Offset of the first occurrence at or after pos; Len(h) when there is none.
NextMatch(h, n, pos) ==
    LET found == {i \in pos..Len(h) : OccursAt(h, n, i)}
    IN IF found = {} THEN Len(h)
       ELSE CHOOSE i \in found : \A j \in found : i <= j

RECURSIVE SearcherSteps(_, _, _)
\* The steps searcher.next() yields from offset pos until Done.
SearcherSteps(h, n, pos) ==
    IF pos >= Len(h) THEN <<>>
    ELSE LET m == NextMatch(h, n, pos)
         IN IF m = pos
            THEN <<[kind |-> "Match", start |-> pos, end |-> pos + Len(n)]>>
                     \o SearcherSteps(h, n, pos + Len(n))
            ELSE <<[kind |-> "Reject", start |-> pos, end |-> m]>>
                     \o SearcherSteps(h, n, m)

(***************************************************************************)
(* Replacement values (R: Display) and ReplacedString                      *)
(* A replacement is a plain &str, or a ReplacedString over a plain &str    *)
(* replacement:  [kind, text, haystack, needle].                           *)
(***************************************************************************)
Str(t) == [kind |-> "str", text |-> t, haystack |-> <<>>, needle |-> <<>>]

Replaced(h, n, t) ==
    [kind |-> "replaced", text |-> t, haystack |-> h, needle |-> n]

RECURSIVE Render(_)

\* StepWrites with the Match arm writing the matched slice, not the
\* replacement.
StepWritesMatchVerbatim(step, haystack, replacement) ==
    <<Slice(haystack, step.start, step.end)>>

\* The writes one pass of the loop of ReplacedString::fmt issues for a step:
\* the replacement rendered for a Match, the haystack slice for a Reject.
StepWrites(step, haystack, replacement) ==
    IF step.kind = "Match" THEN Render(replacement)
    ELSE <<Slice(haystack, step.start, step.end)>>

RECURSIVE FmtLoop(_, _, _)
FmtLoop(steps, haystack, replacement) ==
    IF steps = <<>> THEN <<>>
    ELSE StepWrites(Head(steps), haystack, replacement)
             \o FmtLoop(Tail(steps), haystack, replacement)

\* <ReplacedString as Display>::fmt: the chunks it writes, in order.
ReplacedStringWrites(haystack, needle, replacement) ==
    FmtLoop(SearcherSteps(haystack, needle, 0), haystack, replacement)

\* format_args!("{}", replacement): the chunks the replacement writes.
Render(replacement) ==
    IF replacement.kind = "str" THEN <<replacement.text>>
    ELSE ReplacedStringWrites(replacement.haystack, replacement.needle,
                              Str(replacement.text))

(***************************************************************************)
(* ReplaceWriter                                                           *)
(* self = [writer, needle_pos, needle, replacement, buffer]                *)
(***************************************************************************)
\* ReplaceWriterNew keeping the filter state of the previous writer.
ReplaceWriterNewStale(writer, needle, replacement) ==
    [writer |-> writer, needle_pos |-> needle_pos, needle |-> needle,
     replacement |-> replacement, buffer |-> buffer]

\* ReplaceWriter::new.
ReplaceWriterNew(writer, needle, replacement) ==
    [writer |-> writer, needle_pos |-> 0, needle |-> needle,
     replacement |-> replacement, buffer |-> <<>>]

\* Falsify without the `?` after the flush: the chunk is written even when
\* the flush was refused.
FalsifyNoAbort(self, s) ==
    LET s1 == [self EXCEPT !.needle_pos = 0]
        r1 == SinkWriteStr(s1.writer, s1.buffer)
        r2 == SinkWriteStr(r1.writer, s)
    IN [self |-> [s1 EXCEPT !.writer = r2.writer, !.buffer = <<>>],
        result |-> IF r1.ok /\ r2.ok THEN "ok" ELSE "err"]

\* The falsified branch (lines 94-97 and again 104-107): reset needle_pos,
\* write the buffer, clear it, write s; a refused write returns at once.
Falsify(self, s) ==
    LET s1 == [self EXCEPT !.needle_pos = 0]
        r1 == SinkWriteStr(s1.writer, s1.buffer)
    IN IF ~r1.ok
       THEN [self |-> [s1 EXCEPT !.writer = r1.writer], result |-> "err"]
       ELSE LET r2 == SinkWriteStr(r1.writer, s)
            IN [self |-> [s1 EXCEPT !.writer = r2.writer, !.buffer = <<>>],
                result |-> IF r2.ok THEN "ok" ELSE "err"]

\* PartialMatch also writing the chunk through to the sink.
PartialMatchWriteThrough(self, s) ==
    LET r == SinkWriteStr(self.writer, s)
    IN [self |-> [self EXCEPT !.needle_pos = @ + Len(s), !.buffer = @ \o s,
                              !.writer = r.writer],
        result |-> IF r.ok THEN "ok" ELSE "err"]

\* The partial-match branch (lines 90-92): the chunk is carried, nothing is
\* written.
PartialMatch(self, s) ==
    [self |-> [self EXCEPT !.needle_pos = @ + Len(s), !.buffer = @ \o s],
     result |-> "ok"]

\* Matched flushing the carried bytes before the replacement.
MatchedFlushFirst(self) ==
    LET r == SinkWriteAll(self.writer,
                          <<self.buffer>> \o Render(self.replacement))
    IN [self |-> [self EXCEPT !.buffer = <<>>, !.writer = r.writer],
        result |-> IF r.ok THEN "ok" ELSE "err"]

RECURSIVE FedBack(_, _, _)
\* The chunks of a rendering passed through the needle comparison again.
FedBack(chunks, needle, replacement) ==
    IF chunks = <<>> THEN <<>>
    ELSE (IF StartsWith(Head(chunks), needle) THEN Render(replacement)
          ELSE <<Head(chunks)>>)
             \o FedBack(Tail(chunks), needle, replacement)

\* Matched writing the replacement through the filter, not past it.
MatchedFedBack(self) ==
    LET r == SinkWriteAll(self.writer,
                          FedBack(Render(self.replacement), self.needle,
                                  self.replacement))
    IN [self |-> [self EXCEPT !.buffer = <<>>, !.writer = r.writer],
        result |-> IF r.ok THEN "ok" ELSE "err"]

\* The matched branch (lines 101-102): clear the buffer, render the
\* replacement into the wrapped writer.
Matched(self) ==
    LET r == SinkWriteAll(self.writer, Render(self.replacement))
    IN [self |-> [self EXCEPT !.buffer = <<>>, !.writer = r.writer],
        result |-> IF r.ok THEN "ok" ELSE "err"]

\* write_str with the length test `s.len() <= needle.len()`.
write_strLe(self, s) ==
    LET start == self.needle_pos
    IN IF ~(start <= Len(self.needle) /\ IsCharBoundary(self.needle, start))
       THEN [self |-> self, result |-> "panic"]
       ELSE
       LET needle == Slice(self.needle, start, Len(self.needle))
       IN IF Len(s) <= Len(needle)
          THEN IF ~IsCharBoundary(needle, Len(s))
               THEN [self |-> self, result |-> "panic"]
               ELSE IF StartsWith(s, Slice(needle, 0, Len(s)))
               THEN PartialMatch(self, s)
               ELSE Falsify(self, s)
          ELSE IF StartsWith(s, needle)
               THEN Matched(self)
               ELSE Falsify(self, s)

\* <ReplaceWriter as fmt::Write>::write_str.  result is "ok", "err" (the
\* sink's error) or "panic" (a str slice off a char boundary).
write_str(self, s) ==
    LET start == self.needle_pos
    IN IF ~(start <= Len(self.needle) /\ IsCharBoundary(self.needle, start))
       THEN [self |-> self, result |-> "panic"]
       ELSE
       LET needle == Slice(self.needle, start, Len(self.needle))
       IN IF Len(s) < Len(needle)
          THEN IF ~IsCharBoundary(needle, Len(s))
               THEN [self |-> self, result |-> "panic"]
               ELSE IF StartsWith(s, Slice(needle, 0, Len(s)))
               THEN PartialMatch(self, s)
               ELSE Falsify(self, s)
          ELSE IF StartsWith(s, needle)
               THEN Matched(self)
               ELSE Falsify(self, s)

(***************************************************************************)
(* The views rendered.  view = [kind, haystack, needle, replacement]:      *)
(* kind "display" is a ReplaceDisplay whose haystack's own Display writes  *)
(* the chunks view.haystack in order; kind "string" is a ReplacedString    *)
(* over the &str view.haystack[1].                                         *)
(***************************************************************************)
RECURSIVE ByteSeqs(_)
ByteSeqs(n) ==
    IF n = 0 THEN {<<>>}
    ELSE {Append(s, b) : s \in ByteSeqs(n - 1), b \in Bytes}

\* Every valid str of at most MaxHayLen bytes.
Strs == UNION {{s \in ByteSeqs(n) : IsStr(s)} : n \in 0..MaxHayLen}

\* Non-empty needles; swapping "a" and "b" everywhere maps runs to runs, so
\* needles starting with "b" add nothing.
Needles == {s \in Strs : Len(s) >= 1 /\ s[1] \in {"a", "L"}}

Cost(chunk) == IF Len(chunk) = 0 THEN 1 ELSE Len(chunk)

RECURSIVE ChunkSeqs(_)
\* Every sequence of chunks (empty chunks included) of total cost <= n.
ChunkSeqs(n) ==
    {<<>>} \cup
    UNION {{<<c>> \o rest : rest \in ChunkSeqs(n - Cost(c))} :
               c \in {s \in Strs : Cost(s) <= n}}

Haystacks == ChunkSeqs(MaxHayLen)

Replacements ==
    {Str(<<"r">>), Replaced(<<"c", "a">>, <<"c">>, <<"r">>)}

\* The values of the crate's own tests (replace_string, replace_display).
HERE == <<"!", "H", "E", "R", "E", "!">>
One == <<"o", "n", "e">>
Two == <<"t", "w", "o">>
Three == <<"t", "h", "r", "e", "e">>

TestViews ==
    {[kind |-> "string", haystack |-> <<One \o HERE \o Three>>,
      needle |-> HERE, replacement |-> Str(Two)],
     [kind |-> "string", haystack |-> <<One \o Two \o HERE>>,
      needle |-> HERE, replacement |-> Str(Three)],
     [kind |-> "string", haystack |-> <<One \o Two \o HERE \o HERE>>,
      needle |-> HERE, replacement |-> Str(Three)],
     [kind |-> "display",
      haystack |-> Render(Replaced(One \o HERE, HERE, <<"t", "w">>))
                       \o Render(Replaced(HERE \o Three, HERE, <<"o">>)),
      needle |-> Two,
      replacement |-> Replaced(One \o HERE \o Three, HERE, Two)]}

Views ==
    {[kind |-> "display", haystack |-> h, needle |-> n, replacement |-> r] :
         h \in Haystacks, n \in Needles, r \in Replacements}
    \cup
    {[kind |-> "string", haystack |-> <<h>>, needle |-> n, replacement |-> r] :
         h \in Strs, n \in Needles, r \in Replacements}
    \cup TestViews

NoRender == [pc |-> "none", out |-> <<>>]

Init ==
    /\ view \in Views
    /\ pc = "ready"
    /\ idx = 0
    /\ needle_pos = 0
    /\ buffer = <<>>
    /\ sink = NewSink
    /\ result = "none"
    /\ prev = NoRender

\* The render that just ended, as the next render remembers it.
Ended == IF pc = "done" THEN [pc |-> "done", out |-> sink.out] ELSE prev

\* <ReplaceDisplay as Display>::fmt, entry: a new ReplaceWriter around the
\* sink f; the haystack is about to be formatted into it.
ReplaceDisplayFmt ==
    /\ view.kind = "display"
    /\ pc \in {"ready", "done", "err"}
    /\ LET w == ReplaceWriterNew(NewSink, view.needle, view.replacement)
       IN /\ needle_pos' = w.needle_pos
          /\ buffer' = w.buffer
          /\ sink' = w.writer
    /\ idx' = 0
    /\ pc' = "rendering"
    /\ result' = "none"
    /\ prev' = Ended
    /\ UNCHANGED view

\* The ReplaceWriter of the render in progress, its sink refusing write
\* number failAt of the coming push (0: none).
Writer(failAt) ==
    [writer |-> [sink EXCEPT !.failIn = failAt], needle_pos |-> needle_pos,
     needle |-> view.needle, replacement |-> view.replacement,
     buffer |-> buffer]

\* The haystack's Display pushes its next chunk: one write_str call.  An
\* error makes the haystack's fmt, write_fmt and fmt return it.
WriteStr ==
    /\ pc = "rendering"
    /\ idx < Len(view.haystack)
    /\ LET s == view.haystack[idx + 1]
           attempts == Len(write_str(Writer(0), s).self.writer.out)
                           - Len(sink.out)
       IN \E failAt \in 0..attempts :
            LET r == write_str(Writer(failAt), s)
            IN /\ needle_pos' = r.self.needle_pos
               /\ buffer' = r.self.buffer
               /\ sink' = [r.self.writer EXCEPT !.failIn = 0]
               /\ result' = r.result
               /\ pc' = CASE r.result = "ok" -> "rendering"
                          [] r.result = "err" -> "err"
                          [] OTHER -> "panic"
    /\ idx' = idx + 1
    /\ UNCHANGED <<view, prev>>

\* The haystack has written all its chunks: write_fmt and fmt return Ok and
\* the ReplaceWriter is dropped.
FmtReturn ==
    /\ pc = "rendering"
    /\ idx = Len(view.haystack)
    /\ pc' = "done"
    /\ UNCHANGED <<view, idx, needle_pos, buffer, sink, result, prev>>

\* <ReplacedString as Display>::fmt: the whole search loop.
ReplacedStringFmt ==
    /\ view.kind = "string"
    /\ pc \in {"ready", "done", "err"}
    /\ LET writes == ReplacedStringWrites(view.haystack[1], view.needle,
                                          view.replacement)
       IN \E failAt \in 0..Len(writes) :
            LET r == SinkWriteAll([NewSink EXCEPT !.failIn = failAt], writes)
            IN /\ sink' = [r.writer EXCEPT !.failIn = 0]
               /\ result' = IF r.ok THEN "ok" ELSE "err"
               /\ pc' = IF r.ok THEN "done" ELSE "err"
    /\ prev' = Ended
    /\ UNCHANGED <<view, idx, needle_pos, buffer>>

Next ==
    \/ ReplaceDisplayFmt
    \/ WriteStr
    \/ FmtReturn
    \/ ReplacedStringFmt

Spec == Init /\ [][Next]_vars

(***************************************************************************)
(* Properties                                                              *)
(***************************************************************************)
\* The text the sink has received, the text the haystack spells, and the
\* text the replacement renders to.
Text == Flatten(sink.out)
HayText == Flatten(view.haystack)
ReplText == Flatten(Render(view.replacement))

\* Number of offsets of h at which n occurs.
Occurrences(h, n) == Cardinality({i \in 0..Len(h) : OccursAt(h, n, i)})

RECURSIVE ReplaceAll(_, _, _)
\* h with every non-overlapping occurrence of n, leftmost first, replaced
\* by the text t.
ReplaceAll(h, n, t) ==
    IF h = <<>> THEN <<>>
    ELSE IF StartsWith(h, n)
         THEN t \o ReplaceAll(SubSeq(h, Len(n) + 1, Len(h)), n, t)
         ELSE <<Head(h)>> \o ReplaceAll(Tail(h), n, t)

\* A ReplaceDisplay render has returned Ok.
DisplayDone == view.kind = "display" /\ pc = "done"

\* The remaining needle the coming push is compared with.
Remaining == Slice(view.needle, needle_pos, Len(view.needle))

\* The coming push is a write_str call that returns Ok.
PushOk == pc = "rendering" /\ idx' = idx + 1 /\ result' = "ok"

\* C1: for a haystack with exactly one occurrence of the needle, pushed as
\* any sequence of non-empty chunks, the sink receives the text the
\* single-shot replacement (ReplacedString) of the whole haystack writes.
C1_BoundarySplitting ==
    (/\ DisplayDone
     /\ \A i \in 1..Len(view.haystack) : view.haystack[i] # <<>>
     /\ Occurrences(HayText, view.needle) = 1)
    => Text = Flatten(ReplacedStringWrites(HayText, view.needle,
                                           view.replacement))

\* C2: when the needle does not occur in the text the chunks spell, the sink
\* has received exactly that text once the render returns.
C2_NoOp ==
    (DisplayDone /\ Occurrences(HayText, view.needle) = 0) => Text = HayText

\* C3: when the render finishes with a non-empty carry buffer, the carried
\* bytes are written verbatim as the end of the sink output.
C3_EndOfStreamFlush ==
    [][(pc = "rendering" /\ pc' = "done" /\ buffer # <<>>)
           => Flatten(sink'.out) = Text \o buffer]_vars

\* C4: rendering a ReplacedString writes the haystack slice of every Reject
\* step and one rendering of the replacement for every Match step, in step
\* order, so the sink receives the haystack with every non-overlapping
\* occurrence of the needle replaced.
C4_SingleShot ==
    (view.kind = "string" /\ pc = "done")
    => LET h == view.haystack[1]
           steps == SearcherSteps(h, view.needle, 0)
           matches == {i \in 1..Len(steps) : steps[i].kind = "Match"}
       IN /\ Text = ReplaceAll(h, view.needle, ReplText)
          /\ Len(sink.out) = (Len(steps) - Cardinality(matches))
                 + Cardinality(matches) * Len(Render(view.replacement))

\* C4 witness: replace_string's third case has been rendered: an occurrence
\* followed by an adjacent one at the end of the haystack, both replaced.
C4_Witness ==
    /\ view.kind = "string"
    /\ pc = "done"
    /\ view.haystack = <<One \o Two \o HERE \o HERE>>
    /\ view.needle = HERE
    /\ Text = One \o Two \o Three \o Three

\* C5: a view whose replacement is itself a pending ReplacedString, over a
\* haystack in which the needle occurs, renders to the text obtained by performing the inner replacement on plain text
\* and then replacing the needle in the haystack's text with that result.
C5_Nesting ==
    (/\ DisplayDone
     /\ view.replacement.kind = "replaced"
     /\ Occurrences(HayText, view.needle) >= 1)
    => Text = ReplaceAll(HayText, view.needle,
                         ReplaceAll(view.replacement.haystack,
                                    view.replacement.needle,
                                    view.replacement.text))

\* C6: a push whose chunk begins with the bytes completing an occurrence and
\* holds further bytes processes those leftover bytes too: what the push
\* emits, followed by what it leaves carried, is the replacement followed by
\* the leftover with its own occurrences replaced.
C6_LeftoverProcessed ==
    [][(/\ PushOk
        /\ buffer = Slice(view.needle, 0, needle_pos)
        /\ StartsWith(view.haystack[idx + 1], Remaining)
        /\ Len(view.haystack[idx + 1]) > Len(Remaining))
       => LET s == view.haystack[idx + 1]
              leftover == Slice(s, Len(Remaining), Len(s))
          IN Flatten(sink'.out) \o buffer'
                 = Text \o ReplText
                        \o ReplaceAll(leftover, view.needle, ReplText)]_vars

\* C7: a push fails only if the sink fails: with no refused sink write every
\* write_str call returns Ok and never aborts, and an error is reported
\* only when the sink reported one.
C7_FailsOnlyIfSinkFails ==
    /\ result = "err" => sink.errs > 0
    /\ sink.errs = 0 => result \in {"none", "ok"}

\* C8: every render of a ReplaceDisplay starts from a fresh filter state
\* (needle_pos = 0, empty buffer), and a render that returns Ok wrote the
\* same chunks as the previous render that returned Ok.
C8_RerenderIdempotent ==
    /\ (view.kind = "display" /\ pc = "rendering" /\ idx = 0)
           => (needle_pos = 0 /\ buffer = <<>>)
    /\ (DisplayDone /\ prev.pc = "done") => sink.out = prev.out

\* C8 witness: a second render has returned Ok, after a first one that wrote
\* output and left a non-zero needle_pos behind.
C8_Witness ==
    /\ DisplayDone
    /\ prev.pc = "done"
    /\ prev.out # <<>>
    /\ needle_pos > 0

\* C9: after every write_str call (here: every call that returned Ok) the
\* carry buffer's byte length equals needle_pos.
C9_BufferLenIsNeedlePos ==
    (view.kind = "display" /\ result = "ok") => Len(buffer) = needle_pos

\* C10: after a push that completes a needle occurrence (Case B, prefix
\* equal) the filter is idle: needle_pos = 0 and the buffer is empty.
C10_ResetAfterMatch ==
    [][(/\ PushOk
        /\ Len(view.haystack[idx + 1]) >= Len(Remaining)
        /\ StartsWith(view.haystack[idx + 1], Remaining))
       => (needle_pos' = 0 /\ buffer' = <<>>)]_vars

\* The coming push is any write_str call, and its chunk.
Push == pc = "rendering" /\ idx' = idx + 1
Chunk == view.haystack[idx + 1]

\* The chunk of the coming push is at least as long as the remaining needle
\* and begins with it (Case B, prefix equal).
Completes == Len(Chunk) >= Len(Remaining) /\ StartsWith(Chunk, Remaining)

\* The chunk of the coming push is strictly shorter than the remaining
\* needle and equals its same-length prefix (Case A, prefix equal).
Continues ==
    Len(Chunk) < Len(Remaining) /\ Chunk = SubSeq(Remaining, 1, Len(Chunk))

\* p is a prefix of q.
IsPrefix(p, q) == Len(p) <= Len(q) /\ SubSeq(q, 1, Len(p)) = p

\* C11: a push whose chunk begins with the remaining needle empties the
\* carry buffer without writing it and writes exactly one rendering of the
\* replacement, and nothing else, to the sink.
C11_MatchAcrossChunks ==
    [][(PushOk /\ Completes)
       => (/\ sink'.out = sink.out \o Render(view.replacement)
           /\ buffer' = <<>>)]_vars

\* C11 witness: a three-byte needle pushed one byte at a time has been
\* completed by the third push; the sink holds the replacement only.
C11_Witness ==
    /\ view.kind = "display"
    /\ result = "ok"
    /\ idx = 3
    /\ Len(view.needle) = 3
    /\ \A i \in 1..3 : view.haystack[i] = <<view.needle[i]>>
    /\ sink.out = Render(view.replacement)
    /\ buffer = <<>>

\* C12: a push whose chunk differs from the corresponding prefix of the
\* remaining needle, the sink refusing no write, sets needle_pos to 0,
\* writes the whole carry buffer and then the chunk, each verbatim, and
\* empties the buffer; the carried bytes are the most recently pushed chunks
\* in the order they were pushed.
C12_Falsification ==
    [][(Push /\ sink'.errs = sink.errs /\ ~Completes /\ ~Continues)
       => (/\ needle_pos' = 0
           /\ buffer' = <<>>
           /\ sink'.out = sink.out \o <<buffer, Chunk>>
           /\ \E j \in 1..(idx + 1) :
                  buffer = Flatten(SubSeq(view.haystack, j, idx)))]_vars

\* C13: a push whose chunk is strictly shorter than the remaining needle and
\* equals its same-length prefix returns Ok, leaves the sink untouched,
\* adds the chunk's length to needle_pos and appends the chunk to the buffer.
C13_PartialContinuation ==
    [][(Push /\ Continues)
       => (/\ result' = "ok"
           /\ sink' = sink
           /\ needle_pos' = needle_pos + Len(Chunk)
           /\ buffer' = buffer \o Chunk)]_vars

\* C13 witness: two one-byte chunks have been carried, the sink has received
\* no write.
C13_Witness ==
    /\ view.kind = "display"
    /\ result = "ok"
    /\ idx = 2
    /\ Len(view.haystack[1]) = 1
    /\ Len(view.haystack[2]) = 1
    /\ needle_pos = 2
    /\ buffer = view.haystack[1] \o view.haystack[2]
    /\ sink.out = <<>>

\* C14: after every push needle_pos is less than the needle's length and the
\* carry buffer holds fewer bytes than the needle.
C14_BoundedState ==
    view.kind = "display"
    => (/\ needle_pos >= 0
        /\ needle_pos < Len(view.needle)
        /\ Len(buffer) < Len(view.needle))

\* C14 witness: all but the last byte of a three-byte needle are carried.
C14_Witness ==
    /\ view.kind = "display"
    /\ result = "ok"
    /\ Len(view.needle) = 3
    /\ needle_pos = 2
    /\ Len(buffer) = 2

\* C15: a push, or a single-shot render, that returns an error has had
\* exactly one sink write refused and has issued no write after it: the sink
\* holds what it held before, followed by a proper prefix of the writes the
\* call would have issued.
C15_AbortOnSinkFailure ==
    [][/\ (Push /\ result' = "err")
          => LET all == IF Completes THEN Render(view.replacement)
                        ELSE <<buffer, Chunk>>
             IN /\ sink'.errs = sink.errs + 1
                /\ IsPrefix(sink'.out, sink.out \o all)
                /\ IsPrefix(sink.out, sink'.out)
                /\ Len(sink'.out) < Len(sink.out) + Len(all)
       /\ (view.kind = "string" /\ pc' = "err")
          => LET all == ReplacedStringWrites(view.haystack[1], view.needle,
                                             view.replacement)
             IN /\ sink'.errs = 1
                /\ IsPrefix(sink'.out, all)
                /\ Len(sink'.out) < Len(all)]_vars

\* C15 witness: the flush of a non-empty carry buffer was refused; the push
\* returned the error and the falsifying chunk was not written.
C15_Witness ==
    /\ view.kind = "display"
    /\ result = "err"
    /\ idx = 2
    /\ buffer = view.haystack[1]
    /\ buffer # <<>>
    /\ sink.out = <<>>
    /\ sink.errs = 1

\* C16: when the replacement's own text contains the needle, a push that
\* completes an occurrence still writes that text unchanged to the sink and
\* leaves needle_pos as it was.
C16_ReplacementBypassesFilter ==
    [][(PushOk /\ Completes /\ Occurrences(ReplText, view.needle) >= 1)
       => (/\ Flatten(sink'.out) = Text \o ReplText
           /\ needle_pos' = needle_pos)]_vars

\* C16 witness: needle "a" has been replaced by a rendering that itself
\* contains "a", and the sink holds that rendering.
C16_Witness ==
    /\ view.kind = "display"
    /\ result = "ok"
    /\ idx = 1
    /\ view.haystack[1] = view.needle
    /\ Occurrences(ReplText, view.needle) >= 1
    /\ Text = ReplText

\* C17: every byte of a pushed chunk is carried in the buffer, or written
\* verbatim to the sink after the bytes carried before it, or is part of
\* the needle occurrence the push completes and replaces.
C17_NoByteLost ==
    [][PushOk
       => \/ (sink'.out = sink.out /\ buffer' = buffer \o Chunk)
          \/ (Flatten(sink'.out) = Text \o buffer \o Chunk /\ buffer' = <<>>)
          \/ (/\ Flatten(sink'.out) = Text \o ReplText
              /\ buffer' = <<>>
              /\ buffer \o Chunk = view.needle)]_vars

====
